---- MODULE Spec2Model ----
\* Model of the two NBA scrapers of this repository:
\*   nba_mvp_scraper.py   (award-tracking, multi-season aggregate; prog = "mvp")
\*   nba_2025_scraper.py  (single season 2025, no award page;     prog = "single")
\* The remote site is the environment: every page request draws its outcome
\* (transport failure, table missing, malformed table, or a raw table) from
\* bounded sets.  Text is modelled as sequences of one-character strings so
\* that substring search, stripping and number parsing are computed.
EXTENDS Integers, Sequences, FiniteSets, TLC

\* prog: which script runs.  start_year..end_year: the range scraped.
\* year, pc: the season in progress and its stage.  mvp_winner, basic_stats,
\* advanced_stats: the locals of scrape_season.  season_data: what the last
\* scrape_season returned.  all_data, final_df: the aggregator's list and
\* result.  output_file: the CSV written (None: no file).
\* requested: the log of page requests.  answer: what the site answered to the
\* latest request.  seasonLog: what each scrape_season call returned.
\* df_raw, df_clean: a table as pd.read_html returns it and as the cleaning
\* step leaves it, for the specification of the cleaning step alone.
VARIABLES prog, start_year, end_year, year, pc, mvp_winner, basic_stats,
          advanced_stats, season_data, all_data, final_df, output_file,
          requested, answer, seasonLog, df_raw, df_clean

vars == <<prog, start_year, end_year, year, pc, mvp_winner, basic_stats,
          advanced_stats, season_data, all_data, final_df, output_file,
          requested, answer, seasonLog, df_raw, df_clean>>

-----------------------------------------------------------------------------
\* Bounds of the model.

\* Number of candidate years a multi-season range is drawn from.
MaxYears == 2
\* Largest number of rows of one raw table.
MaxRows == 2
\* Total number of raw table rows the site serves over one run.
MaxSiteRows == 3

\* Default start_year of scrape_all_seasons: the first candidate year of the
\* ranges.
DefaultStartYear == 1981
\* The year the single-season script scrapes.
SingleYear == 2025

-----------------------------------------------------------------------------
\* Cell values of a DataFrame: missing (NaN), a float (field n), or text
\* (field v).

NaN == [t |-> "nan", v |-> <<>>]
Num(n) == [t |-> "num", n |-> n]
Str(s) == [t |-> "str", v |-> s]

notna(c) == c.t # "nan"

\* The repeated-header marker searched for by the cleaning step.
Marker == <<"P", "l", "a", "y", "e", "r">>

\* Python's None for a DataFrame result, and a returned DataFrame.
None == [ok |-> FALSE, rows |-> <<>>]
Df(rows) == [ok |-> TRUE, rows |-> rows]

\* None / a returned winner name.
NoWinner == [ok |-> FALSE, name |-> <<>>]
Winner(s) == [ok |-> TRUE, name |-> s]

-----------------------------------------------------------------------------
\* Text helpers.

\* Series.str.contains(sub): sub occurs somewhere in s.
Contains(s, sub) ==
    \E i \in 1..(Len(s) - Len(sub) + 1) : SubSeq(s, i, i + Len(sub) - 1) = sub

RECURSIVE lstrip(_)
lstrip(s) == IF s # <<>> /\ Head(s) = " " THEN lstrip(Tail(s)) ELSE s

RECURSIVE rstrip(_)
rstrip(s) ==
    IF s # <<>> /\ s[Len(s)] = " " THEN rstrip(SubSeq(s, 1, Len(s) - 1)) ELSE s

\* str.strip()
strip(s) == rstrip(lstrip(s))

Digits == {"0", "1", "2", "3", "4", "5", "6", "7", "8", "9"}

DigitVal(d) ==
    CASE d = "0" -> 0 [] d = "1" -> 1 [] d = "2" -> 2 [] d = "3" -> 3
      [] d = "4" -> 4 [] d = "5" -> 5 [] d = "6" -> 6 [] d = "7" -> 7
      [] d = "8" -> 8 [] d = "9" -> 9

RECURSIVE ParseDigits(_)
ParseDigits(s) ==
    IF s = <<>> THEN 0
    ELSE 10 * ParseDigits(SubSeq(s, 1, Len(s) - 1)) + DigitVal(s[Len(s)])

\* pd.to_numeric(..., errors='coerce') on one cell: a float stays, text that
\* is a number is parsed, anything else becomes NaN.
to_numeric(c) ==
    CASE c.t = "num" -> c
      [] c.t = "nan" -> NaN
      [] c.t = "str" ->
           IF c.v # <<>> /\ \A i \in 1..Len(c.v) : c.v[i] \in Digits
           THEN Num(ParseDigits(c.v))
           ELSE NaN

\* DataFrame.fillna(0) on one cell.
fillna(c) == IF notna(c) THEN c ELSE Num(0)

-----------------------------------------------------------------------------
\* What the site can serve.

\* Player cells of a raw table, as pd.read_html yields them: an empty cell is
\* NaN, a re-inserted header row carries the column title.
PlayerCells == {NaN, Str(Marker), Str(<<"A">>), Str(<<"B">>),
                Str(<<"A", " ">> \o Marker)}

\* Stat cells of a raw table.  Between them the two columns carry the four
\* kinds of cell pd.read_html yields: empty, other text, a float, numeric text.
PTSCells == {NaN, Str(<<"x">>)}
PERCells == {Num(30), Str(<<"1", "2">>)}

\* Raw rows of the per-game table (source column names) and of the advanced table.
RawBasicRows == [Player : PlayerCells, PTS : PTSCells]
RawAdvancedRows == [Player : PlayerCells, PER : PERCells]

SeqsUpTo(S, n) == UNION {[1..k -> S] : k \in 0..n}

\* Text of the winner cell of the award table, before strip(): a name with
\* surrounding white space, and an empty cell.
WinnerTexts == {<<" ", "A", " ">>, <<>>}

\* Outcome of requesting and locating a stats table.
\*   "neterr"  : get_page_content returned None
\*   "notable" : soup.find found no table
\*   "nokey"   : the table has no Player column (KeyError, caught)
\*   "ok"      : a raw table
PageKinds == {"neterr", "notable", "nokey", "ok"}

\* Outcome of requesting the award page.
\*   "norow"  : tbody or its first tr is missing
\*   "nocell" : the winner row has no player cell (AttributeError, caught)
AwardKinds == {"neterr", "notable", "norow", "nocell", "ok"}

Url(kind, y) == <<kind, y>>

-----------------------------------------------------------------------------
\* Table Extractor and Column Normalizer.

\* CleanRows without the removal of re-inserted header rows.
CleanRowsKeepHeaders(rows) == SelectSeq(rows, LAMBDA r : notna(r.Player))

\* df[df['Player'].notna()] then df[~df['Player'].str.contains('Player')]
CleanRows(rows) ==
    SelectSeq(SelectSeq(rows, LAMBDA r : notna(r.Player)),
              LAMBDA r : ~Contains(r.Player.v, Marker))

\* column_mapping rename and selection of the basic columns.
RenameBasic(rows) ==
    [i \in 1..Len(rows) |-> [Player |-> rows[i].Player, Points |-> rows[i].PTS]]

\* column_mapping rename and selection of the advanced columns.
RenameAdvanced(rows) ==
    [i \in 1..Len(rows) |->
        [Player |-> rows[i].Player, Player_Efficiency_Rating |-> rows[i].PER]]

\* get_basic_stats without the check that the table was found: a missing
\* table is read as an empty one.
get_basic_stats_NoTableCheck(kind, raw) ==
    IF kind \in {"ok", "notable"} THEN Df(RenameBasic(CleanRows(raw))) ELSE None

\* get_basic_stats(year), given what the site served.
get_basic_stats(kind, raw) ==
    IF kind = "ok" THEN Df(RenameBasic(CleanRows(raw))) ELSE None

\* get_advanced_stats(year), given what the site served.
get_advanced_stats(kind, raw) ==
    IF kind = "ok" THEN Df(RenameAdvanced(CleanRows(raw))) ELSE None

\* get_mvp_winner(year), given what the site served.
get_mvp_winner(kind, text) ==
    IF kind = "ok" THEN Winner(strip(text)) ELSE NoWinner

-----------------------------------------------------------------------------
\* Season Record Builder.

\* Rows of adv whose key equals p, in adv's order.
Matches(adv, p) == SelectSeq(adv, LAMBDA a : a.Player = p)

\* One basic row joined with its matching advanced rows; a row without a
\* match gets NaN in the advanced columns.
JoinRow(b, adv) ==
    LET m == Matches(adv, b.Player)
    IN  IF m = <<>>
        THEN <<[Player |-> b.Player, Points |-> b.Points,
                Player_Efficiency_Rating |-> NaN]>>
        ELSE [j \in 1..Len(m) |->
                [Player |-> b.Player, Points |-> b.Points,
                 Player_Efficiency_Rating |-> m[j].Player_Efficiency_Rating]]

\* pd.merge(basic_stats, advanced_stats, on='Player', how='left')
RECURSIVE merge(_, _)
merge(basic, adv) ==
    IF basic = <<>> THEN <<>>
    ELSE JoinRow(Head(basic), adv) \o merge(Tail(basic), adv)

\* AddMVP with a substring match in place of equality.
AddMVPContains(rows, w) ==
    [i \in 1..Len(rows) |->
        [Player |-> rows[i].Player, Points |-> rows[i].Points,
         Player_Efficiency_Rating |-> rows[i].Player_Efficiency_Rating,
         MVP |-> IF Contains(rows[i].Player.v, w) THEN Num(1) ELSE Num(0)]]

\* merged_stats['MVP'] = merged_stats['Player'].apply(lambda x: 1 if x == mvp_winner else 0)
AddMVP(rows, w) ==
    [i \in 1..Len(rows) |->
        [Player |-> rows[i].Player, Points |-> rows[i].Points,
         Player_Efficiency_Rating |-> rows[i].Player_Efficiency_Rating,
         MVP |-> IF rows[i].Player = Str(w) THEN Num(1) ELSE Num(0)]]

\* merged_stats['Season'] = year
AddSeason(rows, y) ==
    [i \in 1..Len(rows) |->
        [f \in DOMAIN rows[i] \cup {"Season"} |->
            IF f = "Season" THEN Num(y) ELSE rows[i][f]]]

-----------------------------------------------------------------------------
\* Multi-Season Aggregator.

\* pd.concat(all_data, ignore_index=True)
RECURSIVE concat(_)
concat(dfs) == IF dfs = <<>> THEN <<>> ELSE Head(dfs) \o concat(Tail(dfs))

numeric_columns ==
    {"Minutes", "Points", "Rebounds", "Assists", "Steals", "Blocks",
     "Turnovers", "FG_Pct", "3P_Pct", "FT_Pct", "Player_Efficiency_Rating",
     "Win_Shares", "Box_Plus_Minus", "Usage_Rate", "Value_Over_Replacement",
     "Win_Shares_Per_48"}

\* fillna(0) on the whole frame, then to_numeric on the numeric columns.
CleanFinal(rows) ==
    [i \in 1..Len(rows) |->
        [f \in DOMAIN rows[i] |->
            IF f \in numeric_columns
            THEN to_numeric(fillna(rows[i][f]))
            ELSE fillna(rows[i][f])]]

-----------------------------------------------------------------------------
\* The runs.

YearRange == DefaultStartYear..(DefaultStartYear + MaxYears - 1)

\* FirstStage with the award lookup left out of the award-tracking script.
FirstStageBasic == "basic"

\* First stage of scrape_season: the award lookup in nba_mvp_scraper.py, the
\* basic stats in nba_2025_scraper.py.
FirstStage == IF prog = "mvp" THEN "award" ELSE "basic"

\* StageAfter without the None check on the award lookup.
StageAfterNoAwardCheck(stage, ok) ==
    CASE stage = "award" -> "basic"
      [] stage = "basic" -> IF ok THEN "advanced" ELSE "return"
      [] stage = "advanced" -> IF ok THEN "merge" ELSE "return"

\* StageAfter without the None check on the basic stats.
StageAfterNoBasicCheck(stage, ok) ==
    CASE stage = "award" -> IF ok THEN "basic" ELSE "return"
      [] stage = "basic" -> "advanced"
      [] stage = "advanced" -> IF ok THEN "merge" ELSE "return"

\* The `if ... is None: return None` checks of scrape_season: where the season
\* goes after a stage, given whether the stage returned a value.
StageAfter(stage, ok) ==
    IF ~ok THEN "return"
    ELSE CASE stage = "award" -> "basic"
           [] stage = "basic" -> "advanced"
           [] stage = "advanced" -> "merge"

\* Raw rows the site has served so far in this run.
RECURSIVE SumN(_)
SumN(log) == IF log = <<>> THEN 0 ELSE Head(log).n + SumN(Tail(log))

Served == SumN(requested)

\* Largest raw table the next request can be answered with.
RowCap == IF MaxRows < MaxSiteRows - Served THEN MaxRows ELSE MaxSiteRows - Served

\* One entry of the request log: the URL requested, whether the site answered
\* with the page and table asked for, and the number of raw rows it served.
Request(kind, y, ans, n) == [url |-> Url(kind, y), ok |-> (ans = "ok"), n |-> n]

Init ==
    /\ prog \in {"mvp", "single"}
    /\ IF prog = "mvp"
       THEN start_year \in YearRange /\ end_year \in YearRange
       ELSE start_year = SingleYear /\ end_year = SingleYear
    /\ year = start_year
    /\ pc = IF start_year > end_year THEN "aggregate" ELSE FirstStage
    /\ mvp_winner = NoWinner
    /\ basic_stats = None
    /\ advanced_stats = None
    /\ season_data = None
    /\ all_data = <<>>
    /\ final_df = None
    /\ output_file = None
    /\ requested = <<>>
    /\ answer = "none"
    /\ seasonLog = <<>>
    /\ df_raw = <<>>
    /\ df_clean = <<>>

\* SeasonReturns with a loop that a failed season ends.
SeasonReturnsStopOnFailure(df) ==
    /\ season_data' = df
    /\ seasonLog' = Append(seasonLog, [year |-> year, ok |-> df.ok, rows |-> df.rows])
    /\ mvp_winner' = NoWinner
    /\ basic_stats' = None
    /\ advanced_stats' = None
    /\ IF prog = "mvp"
       THEN /\ all_data' = IF df.ok THEN Append(all_data, df.rows) ELSE all_data
            /\ year' = year + 1
            /\ pc' = IF year + 1 > end_year \/ ~df.ok THEN "aggregate" ELSE "award"
       ELSE /\ all_data' = all_data
            /\ year' = year
            /\ pc' = "main"

\* scrape_season(year) returns df to its caller: the loop body of
\* scrape_all_seasons appends a result that is not None and goes on to the
\* next year; the single-season main keeps it.
SeasonReturns(df) ==
    /\ season_data' = df
    /\ seasonLog' = Append(seasonLog, [year |-> year, ok |-> df.ok, rows |-> df.rows])
    /\ mvp_winner' = NoWinner
    /\ basic_stats' = None
    /\ advanced_stats' = None
    /\ IF prog = "mvp"
       THEN /\ all_data' = IF df.ok THEN Append(all_data, df.rows) ELSE all_data
            /\ year' = year + 1
            /\ pc' = IF year + 1 > end_year THEN "aggregate" ELSE FirstStage
       ELSE /\ all_data' = all_data
            /\ year' = year
            /\ pc' = "main"

\* scrape_season: mvp_winner = self.get_mvp_winner(year); None ends the season.
FetchAward ==
    /\ pc = "award"
    /\ \E kind \in AwardKinds, text \in WinnerTexts :
         LET w == get_mvp_winner(kind, text)
             nxt == StageAfter("award", w.ok)
         IN  /\ kind # "ok" => text = <<>>
             /\ requested' = Append(requested, Request("awards", year, kind, 0))
             /\ answer' = kind
             /\ IF nxt = "return"
                THEN SeasonReturns(None)
                ELSE /\ mvp_winner' = w
                     /\ pc' = nxt
                     /\ UNCHANGED <<year, basic_stats, advanced_stats,
                                    season_data, all_data, seasonLog>>
    /\ UNCHANGED <<df_raw, df_clean, prog, start_year, end_year, final_df, output_file>>

\* scrape_season: basic_stats = self.get_basic_stats(year); None ends the season.
FetchBasic ==
    /\ pc = "basic"
    /\ \E kind \in PageKinds, raw \in SeqsUpTo(RawBasicRows, RowCap) :
         LET df == get_basic_stats(kind, raw)
             nxt == StageAfter("basic", df.ok)
         IN  /\ kind # "ok" => raw = <<>>
             /\ requested' = Append(requested, Request("per_game", year, kind, Len(raw)))
             /\ answer' = kind
             /\ IF nxt = "return"
                THEN SeasonReturns(None)
                ELSE /\ basic_stats' = df
                     /\ pc' = nxt
                     /\ UNCHANGED <<year, mvp_winner, advanced_stats,
                                    season_data, all_data, seasonLog>>
    /\ UNCHANGED <<df_raw, df_clean, prog, start_year, end_year, final_df, output_file>>

\* scrape_season: advanced_stats = self.get_advanced_stats(year); None ends the season.
FetchAdvanced ==
    /\ pc = "advanced"
    /\ \E kind \in PageKinds, raw \in SeqsUpTo(RawAdvancedRows, RowCap) :
         LET df == get_advanced_stats(kind, raw)
             nxt == StageAfter("advanced", df.ok)
         IN  /\ kind # "ok" => raw = <<>>
             /\ requested' = Append(requested, Request("advanced", year, kind, Len(raw)))
             /\ answer' = kind
             /\ IF nxt = "return"
                THEN SeasonReturns(None)
                ELSE /\ advanced_stats' = df
                     /\ pc' = nxt
                     /\ UNCHANGED <<year, mvp_winner, basic_stats,
                                    season_data, all_data, seasonLog>>
    /\ UNCHANGED <<df_raw, df_clean, prog, start_year, end_year, final_df, output_file>>

\* The merged frame scrape_season returns.
MergedSeason ==
    LET m == merge(basic_stats.rows, advanced_stats.rows)
    IN  IF prog = "mvp"
        THEN AddSeason(AddMVP(m, mvp_winner.name), year)
        ELSE AddSeason(m, year)

\* scrape_season: the try block that merges, flags, stamps and returns.
Merge ==
    /\ pc = "merge"
    /\ SeasonReturns(Df(MergedSeason))
    /\ UNCHANGED <<df_raw, df_clean, prog, start_year, end_year, final_df, output_file, requested,
                   answer>>

\* AggregateResult without the check for an empty list.
AggregateResultNoCheck(data) == Df(CleanFinal(concat(data)))

\* What scrape_all_seasons returns after the loop: None without data, else
\* the cleaned concatenation.
AggregateResult(data) ==
    IF data = <<>> THEN None ELSE Df(CleanFinal(concat(data)))

\* scrape_all_seasons after the loop.
Aggregate ==
    /\ pc = "aggregate"
    /\ final_df' = AggregateResult(all_data)
    /\ pc' = "main"
    /\ UNCHANGED <<df_raw, df_clean, prog, start_year, end_year, year, mvp_winner, basic_stats,
                   advanced_stats, season_data, all_data, output_file,
                   requested, answer, seasonLog>>

\* The file main() of nba_mvp_scraper.py writes (None: no file).
SavedAggregate(df) == IF df.ok THEN Df(df.rows) ELSE None

\* main() of nba_mvp_scraper.py: save the dataset when there is one.
MainAggregate ==
    /\ pc = "main"
    /\ prog = "mvp"
    /\ output_file' = SavedAggregate(final_df)
    /\ pc' = "done"
    /\ UNCHANGED <<df_raw, df_clean, prog, start_year, end_year, year, mvp_winner, basic_stats,
                   advanced_stats, season_data, all_data, final_df,
                   requested, answer, seasonLog>>

\* The file main() of nba_2025_scraper.py writes (None: no file).
SavedSingle(df) == IF df.ok THEN Df(CleanFinal(df.rows)) ELSE None

\* main() of nba_2025_scraper.py: clean and save the season when there is one.
MainSingle ==
    /\ pc = "main"
    /\ prog = "single"
    /\ output_file' = SavedSingle(season_data)
    /\ pc' = "done"
    /\ UNCHANGED <<df_raw, df_clean, prog, start_year, end_year, year, mvp_winner, basic_stats,
                   advanced_stats, season_data, all_data, final_df,
                   requested, answer, seasonLog>>

Next ==
    \/ FetchAward
    \/ FetchBasic
    \/ FetchAdvanced
    \/ Merge
    \/ Aggregate
    \/ MainAggregate
    \/ MainSingle

Spec == Init /\ [][Next]_vars

-----------------------------------------------------------------------------
\* The cleaning step of get_basic_stats and get_advanced_stats on its own:
\* a raw table of either kind is drawn and cleaned.

InitClean ==
    /\ prog \in {"mvp", "single"}
    /\ start_year = (IF prog = "mvp" THEN DefaultStartYear ELSE SingleYear)
    /\ end_year = start_year
    /\ year = start_year
    /\ \/ pc = "clean_basic" /\ df_raw \in SeqsUpTo(RawBasicRows, MaxRows)
       \/ pc = "clean_advanced" /\ df_raw \in SeqsUpTo(RawAdvancedRows, MaxRows)
    /\ df_clean = <<>>
    /\ mvp_winner = NoWinner
    /\ basic_stats = None
    /\ advanced_stats = None
    /\ season_data = None
    /\ all_data = <<>>
    /\ final_df = None
    /\ output_file = None
    /\ requested = <<>>
    /\ answer = "ok"
    /\ seasonLog = <<>>

\* get_basic_stats: the two cleaning filters on the per-game table.
CleanBasic ==
    /\ pc = "clean_basic"
    /\ df_clean' = CleanRows(df_raw)
    /\ pc' = "cleaned"
    /\ UNCHANGED <<df_raw, prog, start_year, end_year, year, mvp_winner,
                   basic_stats, advanced_stats, season_data, all_data,
                   final_df, output_file, requested, answer, seasonLog>>

\* get_advanced_stats: the two cleaning filters on the advanced table.
CleanAdvanced ==
    /\ pc = "clean_advanced"
    /\ df_clean' = CleanRows(df_raw)
    /\ pc' = "cleaned"
    /\ UNCHANGED <<df_raw, prog, start_year, end_year, year, mvp_winner,
                   basic_stats, advanced_stats, season_data, all_data,
                   final_df, output_file, requested, answer, seasonLog>>

NextClean ==
    \/ CleanBasic
    \/ CleanAdvanced

SpecClean == InitClean /\ [][NextClean]_vars

-----------------------------------------------------------------------------
\* History queries used by the properties.

\* Positions of the request log.
Reqs == 1..Len(requested)

\* Year of a request-log entry.
ReqYear(i) == requested[i].url[2]

\* Page of a request-log entry.
ReqPage(i) == requested[i].url[1]

\* Position i of the request log is a request of page `page` of year y that
\* the site answered with the page and table asked for.
Fetched(i, page, y) == requested[i].url = Url(page, y) /\ requested[i].ok

\* Years whose award page request failed (page, table, row or cell missing).
AwardFailedYears == {ReqYear(i) : i \in {j \in Reqs : ReqPage(j) = "awards" /\ ~requested[j].ok}}

\* The scrape_season calls that returned a frame.
Succeeded == {i \in 1..Len(seasonLog) : seasonLog[i].ok}

\* Rows returned for year y (empty when the season failed or was not run).
RECURSIVE RowsOfYear(_, _)
RowsOfYear(log, y) ==
    IF log = <<>> THEN <<>>
    ELSE (IF Head(log).year = y /\ Head(log).ok THEN Head(log).rows ELSE <<>>)
         \o RowsOfYear(Tail(log), y)

\* Rows of the seasons y..end_year that succeeded, in ascending season order.
RECURSIVE SucceededRowsFrom(_)
SucceededRowsFrom(y) ==
    IF y > end_year THEN <<>> ELSE RowsOfYear(seasonLog, y) \o SucceededRowsFrom(y + 1)

\* The numeric fields of a row.
NumericFields(r) == DOMAIN r \cap numeric_columns

-----------------------------------------------------------------------------
\* Properties.

\* C1: every merge step returns as many rows as the basic-stats record set of
\* the season has, whatever the basic and advanced record sets are (repeated
\* Player values included).
C1_RowCountEqualsBasic ==
    [][Merge => Len(season_data'.rows) = Len(basic_stats.rows)]_vars

\* C2: in the dataset scrape_all_seasons returns, and in the file either main
\* writes, every value of every numeric field is a number, never missing.
C2_NumericFieldsAreNumbers ==
    /\ final_df.ok =>
         \A i \in 1..Len(final_df.rows) :
            \A f \in NumericFields(final_df.rows[i]) : final_df.rows[i][f].t = "num"
    /\ output_file.ok =>
         \A i \in 1..Len(output_file.rows) :
            \A f \in NumericFields(output_file.rows[i]) : output_file.rows[i][f].t = "num"

\* C3: once the loop of scrape_all_seasons is over, every year of the range
\* was attempted exactly once in ascending order (a failed season did not
\* stop the run), and when a season succeeded the dataset is, row for row,
\* the concatenation in ascending season order of the rows the succeeded
\* seasons returned, each row with its cells cleaned by the aggregator.
C3_AggregateIsConcatOfSucceeded ==
    (prog = "mvp" /\ pc \in {"main", "done"}) =>
        /\ Len(seasonLog) = (IF end_year >= start_year THEN end_year - start_year + 1 ELSE 0)
        /\ \A i \in 1..Len(seasonLog) : seasonLog[i].year = start_year + i - 1
        /\ \A y \in start_year..end_year :
              Cardinality({i \in Reqs : requested[i].url = Url("awards", y)}) = 1
        /\ \A i, j \in Reqs : i < j => ReqYear(i) <= ReqYear(j)
        /\ Succeeded # {} =>
              LET expected == SucceededRowsFrom(start_year)
              IN  /\ final_df.ok
                  /\ final_df.rows = CleanFinal(expected)
                  /\ \A i \in 1..Len(final_df.rows) :
                        /\ final_df.rows[i].Player = expected[i].Player
                        /\ final_df.rows[i].Season = expected[i].Season

\* C3 witness: a finished run in which a season failed and the dataset holds
\* rows of two seasons, or two rows of one season after a failed one.
C3_Witness ==
    /\ prog = "mvp" /\ pc = "done"
    /\ Len(seasonLog) = 2
    /\ final_df.ok /\ Len(final_df.rows) >= 2
    /\ \/ \E i \in 1..Len(seasonLog) : ~seasonLog[i].ok
       \/ final_df.rows[1].Season # final_df.rows[Len(final_df.rows)].Season

\* C4: in the award-tracking script, no row of the returned dataset or of the
\* written file belongs to a year whose award lookup failed, and every row has
\* its award flag set to 0 or 1.
C4_AwardFailureExcludesSeason ==
    prog = "mvp" =>
        /\ final_df.ok =>
             \A i \in 1..Len(final_df.rows) :
                /\ final_df.rows[i].Season.n \notin AwardFailedYears
                /\ final_df.rows[i].MVP \in {Num(0), Num(1)}
        /\ output_file.ok =>
             \A i \in 1..Len(output_file.rows) :
                /\ output_file.rows[i].Season.n \notin AwardFailedYears
                /\ output_file.rows[i].MVP \in {Num(0), Num(1)}

\* C4 witness: a file with rows was written in a run in which an award lookup
\* failed.
C4_Witness ==
    /\ prog = "mvp" /\ pc = "done"
    /\ AwardFailedYears # {}
    /\ output_file.ok /\ Len(output_file.rows) >= 1

\* C5: scrape_all_seasons returns a dataset exactly when a season of the range
\* succeeded, and main writes a file exactly then.
C5_DatasetIffSomeSeasonSucceeded ==
    /\ (prog = "mvp" /\ pc \in {"main", "done"}) => (final_df.ok <=> Succeeded # {})
    /\ (prog = "mvp" /\ pc = "done") => (output_file.ok <=> Succeeded # {})
    /\ (prog = "mvp" /\ pc # "done") => ~output_file.ok

\* C5 witness: a finished run of two seasons that both failed.
C5_Witness ==
    /\ prog = "mvp" /\ pc = "done"
    /\ Len(seasonLog) = 2 /\ Succeeded = {}
    /\ ~final_df.ok /\ ~output_file.ok

\* C6: in the single-season script, when the basic-stats table is not found in
\* the fetched page, the season is reported failed and no file is written.
C6_SingleSeasonTableMissing ==
    (/\ prog = "single"
     /\ requested # <<>>
     /\ ReqPage(Len(requested)) = "per_game"
     /\ answer = "notable") =>
        /\ pc \in {"main", "done"}
        /\ ~season_data.ok
        /\ seasonLog = <<[year |-> SingleYear, ok |-> FALSE, rows |-> <<>>]>>
        /\ ~output_file.ok

\* C6 witness: the single-season run ended after the basic-stats table was
\* not found.
C6_Witness ==
    /\ prog = "single" /\ pc = "done"
    /\ Len(requested) = 1
    /\ requested[1].url = Url("per_game", SingleYear)
    /\ answer = "notable"

\* C7: no row of a season that was built has a missing or empty Player, nor
\* the repeated-header marker as Player.
C7_MergedPlayersAreData ==
    \A s \in Succeeded :
        \A i \in 1..Len(seasonLog[s].rows) :
            /\ notna(seasonLog[s].rows[i].Player)
            /\ seasonLog[s].rows[i].Player.v # <<>>
            /\ seasonLog[s].rows[i].Player # Str(Marker)

\* C7 witness: a single-season run whose raw basic table had two rows and
\* whose merged frame has one: cleaning dropped a raw row and kept another.
C7_Witness ==
    /\ prog = "single" /\ season_data.ok
    /\ \E i \in Reqs : ReqPage(i) = "per_game" /\ requested[i].n = 2
    /\ Len(season_data.rows) = 1

\* C8: the merge step of the award-tracking script flags a row 1 exactly when
\* its Player equals the winner name extracted for the season, and 0 otherwise.
C8_FlagIffWinner ==
    [][(Merge /\ prog = "mvp") =>
        \A i \in 1..Len(season_data'.rows) :
            /\ season_data'.rows[i].MVP \in {Num(0), Num(1)}
            /\ season_data'.rows[i].MVP = Num(1)
                 <=> season_data'.rows[i].Player = Str(mvp_winner.name)]_vars

\* C8 witness: a built season with a flagged and an unflagged row.
C8_Witness ==
    /\ prog = "mvp" /\ season_data.ok
    /\ \E i, j \in 1..Len(season_data.rows) :
          season_data.rows[i].MVP = Num(1) /\ season_data.rows[j].MVP = Num(0)

\* C9 as stated: the award page of a season is requested only after the basic
\* and advanced pages of that season were fetched successfully.
C9_AwardAfterBasicAndAdvanced ==
    \A i \in Reqs :
        ReqPage(i) = "awards" =>
            /\ \E j \in 1..(i - 1) : Fetched(j, "per_game", ReqYear(i))
            /\ \E j \in 1..(i - 1) : Fetched(j, "advanced", ReqYear(i))

\* C9 amended: in the award-tracking script the stages of a season run in the
\* order FetchAward, FetchBasic, FetchAdvanced, Merge, and in the single-season
\* script in the order FetchBasic, FetchAdvanced, Merge: the award page is the
\* first request of its season, the basic page is requested only after the
\* award lookup succeeded (when there is one), the advanced page only after
\* the basic page was fetched successfully, and a season is merged only after
\* all its pages were fetched successfully.
C9_StageOrder ==
    /\ \A i \in Reqs :
          /\ ReqPage(i) = "awards" =>
                prog = "mvp" /\ \A j \in 1..(i - 1) : ReqYear(j) # ReqYear(i)
          /\ ReqPage(i) = "per_game" =>
                IF prog = "mvp"
                THEN \E j \in 1..(i - 1) : Fetched(j, "awards", ReqYear(i))
                ELSE \A j \in 1..(i - 1) : ReqYear(j) # ReqYear(i)
          /\ ReqPage(i) = "advanced" =>
                \E j \in 1..(i - 1) : Fetched(j, "per_game", ReqYear(i))
    /\ \A s \in Succeeded :
          /\ \E i \in Reqs : Fetched(i, "advanced", seasonLog[s].year)
          /\ \E i \in Reqs : Fetched(i, "per_game", seasonLog[s].year)
          /\ prog = "mvp" => \E i \in Reqs : Fetched(i, "awards", seasonLog[s].year)
    /\ pc = "merge" =>
          /\ \E i \in Reqs : Fetched(i, "advanced", year)
          /\ \E i \in Reqs : Fetched(i, "per_game", year)

\* C9 witness: a season of the award-tracking script that went through all
\* four stages.
C9_Witness ==
    /\ prog = "mvp"
    /\ \E s \in Succeeded : Len(seasonLog[s].rows) >= 1

\* C10: a failed stage ends its season: the failed request is the last request
\* of that season, the season has returned Failed without a merge, and no page
\* URL is requested twice in a run.
C10_FailureIsTerminal ==
    /\ \A i, j \in Reqs : i < j => requested[i].url # requested[j].url
    /\ \A i \in Reqs :
          ~requested[i].ok =>
             /\ \A j \in Reqs : j > i => ReqYear(j) # ReqYear(i)
             /\ \E s \in 1..Len(seasonLog) : seasonLog[s].year = ReqYear(i)
             /\ \A s \in 1..Len(seasonLog) :
                   seasonLog[s].year = ReqYear(i) =>
                      ~seasonLog[s].ok /\ seasonLog[s].rows = <<>>
             /\ ~(year = ReqYear(i) /\ pc \in {"award", "basic", "advanced", "merge"})

\* C10 witness: the basic-stats request of a season failed and the run went
\* on to request pages of the next season.
C10_Witness ==
    \E i, j \in Reqs :
        /\ i < j
        /\ ReqPage(i) = "per_game" /\ ~requested[i].ok
        /\ ReqYear(j) > ReqYear(i)

\* A Player cell that is a non-empty string different from the marker.
IsDataPlayer(c) == c.t = "str" /\ c.v # <<>> /\ c.v # Marker

\* C11: the cleaning step keeps exactly the raw rows whose Player is a
\* non-empty string different from the repeated-header marker, in source
\* order; it drops a row only if its Player is missing or is the marker.
C11_KeepsNonMarkerRows ==
    pc = "cleaned" =>
        df_clean = SelectSeq(df_raw, LAMBDA r : IsDataPlayer(r.Player))

====
